---- MODULE Spec2Model ----
(***************************************************************************)
(* Model of the /run request handler (app/main.py) and of the Analyzer     *)
(* rendering subclass (app/analyzer.py) of pyheatintegration-backend.      *)
(*                                                                         *)
(* One /run request is a straight-line sequence of steps: building the     *)
(* Analyzer, nine Analyzer.create_* calls (each one a call of the          *)
(* PinchAnalyzer provider followed by a matplotlib rendering), the writing *)
(* of the thirteen zip entries and the construction of the response.  Any  *)
(* step may raise; the two except clauses of run turn the exception into   *)
(* a failure response.                                                     *)
(***************************************************************************)
EXTENDS Integers, Sequences, FiniteSets, TLC

VARIABLES
    pc,        \* position of the handler: idle, build, provider, render, zip, return, done
    i,         \* index into CallSeq of the Analyzer call being executed
    cur,       \* hot_lines, cold_lines (or gcc series) local to the running Analyzer method
    lines,     \* run's locals hot_lines*/cold_lines*, per create_* method
    bufs,      \* run's locals buf_*, per image key
    zip,       \* entries written to the ZipFile so far
    zipOpen,   \* a ZipFile has been created for this request
    result,    \* the dict returned by run
    figs,      \* figures registered in matplotlib.pyplot (process-wide)
    reqs,      \* number of /run requests received
    log,       \* history: the steps executed by the current request
    fail,      \* history: the first exception raised in the current request
    call       \* a direct call of Analyzer.draw (specification SpecDraw)

vars == <<pc, i, cur, lines, bufs, zip, zipOpen, result, figs, reqs, log, fail, call>>

(***************************************************************************)
(* Bounds                                                                  *)
(***************************************************************************)
MaxRequests == 2
MaxLines == 2

None == [none |-> TRUE]

(***************************************************************************)
(* Helpers on sequences and sets                                           *)
(***************************************************************************)
Range(s) == {s[k] : k \in DOMAIN s}

SetMin(S) == CHOOSE x \in S : \A y \in S : x <= y

SetMax(S) == CHOOSE x \in S : \A y \in S : y <= x

RECURSIVE SortedSeq(_)
SortedSeq(S) == IF S = {} THEN <<>> ELSE <<SetMin(S)>> \o SortedSeq(S \ {SetMin(S)})

(***************************************************************************)
(* Data: a point is <<heat, temperature>>, a Line a sequence of points, a  *)
(* line group a sequence of Lines, a LineSet the pair of groups a provider *)
(* call returns.                                                           *)
(***************************************************************************)
LineSetOf(hot_lines, cold_lines) == [hot_lines |-> hot_lines, cold_lines |-> cold_lines]

\* The LineSets and the grand-composite series the PinchAnalyzer provider
\* may return to a request (the provider is an external library).
LS1 == LineSetOf(<< <<<<0, 150>>, <<100, 50>>>> >>, << <<<<10, 30>>, <<100, 120>>>> >>)

LS2 == LineSetOf(<< <<<<0, 50>>, <<50, 100>>>>, <<<<50, 100>>, <<120, 150>>>> >>,
                 << <<<<0, 30>>, <<120, 120>>>> >>)

ProviderLineSets == {LS1, LS2}

GccSeries == [gcc_heats |-> <<0, 40, 10>>, gcc_temps |-> <<145, 100, 35>>]

\* Inputs of a direct call of draw: at most MaxLines Lines in all, each of
\* one or two points.
Xs == {0, 50, 120}

Ys == {30, 150}

DrawPoints == Xs \X Ys

DrawLinesIn == {<<p>> : p \in DrawPoints}
                 \cup {pq \in DrawPoints \X DrawPoints : pq[1][1] < pq[2][1]}

RECURSIVE GroupsOfLen(_)
GroupsOfLen(n) ==
    IF n = 0 THEN {<<>>}
    ELSE {Append(g, l) : g \in GroupsOfLen(n - 1), l \in DrawLinesIn}

DrawInputs ==
    UNION {{LineSetOf(h, c) : h \in GroupsOfLen(nh), c \in GroupsOfLen(nc)} :
             <<nh, nc>> \in {x \in (0..MaxLines) \X (0..MaxLines) : x[1] + x[2] <= MaxLines}}

(***************************************************************************)
(* pyheatintegration helpers used by draw (library code)                   *)
(***************************************************************************)
PointsOf(ls) == UNION {Range(ls[k]) : k \in DOMAIN ls}

\* extract_x: the distinct x coordinates of the lines, ascending
extract_x(ls) == SortedSeq({p[1] : p \in PointsOf(ls)})

\* y_range: the least and the greatest y coordinate of the lines
y_range(ls) == <<SetMin({p[2] : p \in PointsOf(ls)}), SetMax({p[2] : p \in PointsOf(ls)})>>

(***************************************************************************)
(* matplotlib artists                                                      *)
(***************************************************************************)
LineCollection(segments, colors) == [segments |-> segments, colors |-> colors]

\* ax.vlines(heats, ymin, ymax, linestyles=':', colors='k'): one line per element of heats
ax_vlines(heats, ymin, ymax) ==
    [k \in 1..Len(heats) |->
        [x |-> heats[k], ymin |-> ymin, ymax |-> ymax, linestyles |-> ":", colors |-> "k"]]

(***************************************************************************)
(* Analyzer.draw: the figure saved as PNG                                  *)
(***************************************************************************)
\* Variant of draw: the guides are computed from the hot lines alone
draw_guides_hot_only(hot_lines, cold_lines, with_vlines) ==
    [kind |-> "tq", xlabel |-> "Q [kW]", ylabel |-> "T",
     hot |-> LineCollection(hot_lines, "#ff7f0e"),
     cold |-> LineCollection(cold_lines, "#1f77b4"),
     vlines |-> IF with_vlines /\ PointsOf(hot_lines) # {}
                THEN ax_vlines(extract_x(hot_lines),
                               y_range(hot_lines)[1], y_range(hot_lines)[2])
                ELSE <<>>]

draw(hot_lines, cold_lines, with_vlines) ==
    [kind |-> "tq", xlabel |-> "Q [kW]", ylabel |-> "T",
     hot |-> LineCollection(hot_lines, "#ff7f0e"),
     cold |-> LineCollection(cold_lines, "#1f77b4"),
     vlines |-> IF with_vlines
                THEN ax_vlines(extract_x(hot_lines \o cold_lines),
                               y_range(hot_lines \o cold_lines)[1],
                               y_range(hot_lines \o cold_lines)[2])
                ELSE <<>>]

\* Analyzer.create_grand_composite_curve: the figure saved as PNG
gcc_figure(series) ==
    [kind |-> "gcc", xlabel |-> "Q [kW]", ylabel |-> "Shifted Temperature",
     plot |-> series]

(***************************************************************************)
(* run: the fixed sequence of Analyzer calls (main.py 145-157); each names *)
(* the local that receives its image                                       *)
(***************************************************************************)
AnalyzerCall(method, with_vlines, key) ==
    [method |-> method, with_vlines |-> with_vlines, key |-> key]

\* Variant of CallSeq: the annotated split call invokes create_tq_merged
CallSeqCopyPaste ==
    << AnalyzerCall("create_grand_composite_curve", FALSE, "gcc"),
       AnalyzerCall("create_tq", FALSE, "tq"),
       AnalyzerCall("create_tq", TRUE, "tq_with_vlines"),
       AnalyzerCall("create_tq_separated", FALSE, "tq_separated"),
       AnalyzerCall("create_tq_separated", TRUE, "tq_separated_with_vlines"),
       AnalyzerCall("create_tq_split", FALSE, "tq_split"),
       AnalyzerCall("create_tq_merged", TRUE, "tq_split_with_vlines"),
       AnalyzerCall("create_tq_merged", FALSE, "tq_merged"),
       AnalyzerCall("create_tq_merged", TRUE, "tq_merged_with_vlines") >>

\* Variant of CallSeq: the split calls are made before the separated calls
CallSeqSwapped ==
    << AnalyzerCall("create_grand_composite_curve", FALSE, "gcc"),
       AnalyzerCall("create_tq", FALSE, "tq"),
       AnalyzerCall("create_tq", TRUE, "tq_with_vlines"),
       AnalyzerCall("create_tq_split", FALSE, "tq_split"),
       AnalyzerCall("create_tq_split", TRUE, "tq_split_with_vlines"),
       AnalyzerCall("create_tq_separated", FALSE, "tq_separated"),
       AnalyzerCall("create_tq_separated", TRUE, "tq_separated_with_vlines"),
       AnalyzerCall("create_tq_merged", FALSE, "tq_merged"),
       AnalyzerCall("create_tq_merged", TRUE, "tq_merged_with_vlines") >>

CallSeq ==
    << AnalyzerCall("create_grand_composite_curve", FALSE, "gcc"),
       AnalyzerCall("create_tq", FALSE, "tq"),
       AnalyzerCall("create_tq", TRUE, "tq_with_vlines"),
       AnalyzerCall("create_tq_separated", FALSE, "tq_separated"),
       AnalyzerCall("create_tq_separated", TRUE, "tq_separated_with_vlines"),
       AnalyzerCall("create_tq_split", FALSE, "tq_split"),
       AnalyzerCall("create_tq_split", TRUE, "tq_split_with_vlines"),
       AnalyzerCall("create_tq_merged", FALSE, "tq_merged"),
       AnalyzerCall("create_tq_merged", TRUE, "tq_merged_with_vlines") >>

TqMethods == {"create_tq", "create_tq_separated", "create_tq_split", "create_tq_merged"}

BufKeys == {CallSeq[k].key : k \in DOMAIN CallSeq}

\* What the provider (the PinchAnalyzer method of the same name) may return
ProviderReturns(method) ==
    IF method = "create_grand_composite_curve" THEN {GccSeries} ELSE ProviderLineSets

\* Variant of tq_lines: the annotated call reuses the LineSet of the plain call
tq_lines_cached(c) == IF c.with_vlines THEN lines[c.method] ELSE cur

\* The LineSet an Analyzer.create_tq* method hands to draw and returns:
\* the one its own super() call has just returned (analyzer.py 46-47).
tq_lines(c) == cur

\* The image an Analyzer method renders and returns
rendered(c) ==
    IF c.method = "create_grand_composite_curve"
    THEN gcc_figure(cur)
    ELSE draw(tq_lines(c).hot_lines, tq_lines(c).cold_lines, c.with_vlines)

(***************************************************************************)
(* run: packaging (main.py 159-177) and the responses (main.py 181-207)    *)
(***************************************************************************)
ZipEntry(name, kind, from) == [name |-> name, kind |-> kind, from |-> from]

\* Variant of ZipEntries: the JSON entry of the separated variant is named tq_separated.json
ZipEntriesRenamed ==
    << ZipEntry("gcc.png", "png", "gcc"),
       ZipEntry("tq.png", "png", "tq"),
       ZipEntry("tq_with_vlines.png", "png", "tq_with_vlines"),
       ZipEntry("tq.json", "json", "create_tq"),
       ZipEntry("tq_separated.png", "png", "tq_separated"),
       ZipEntry("tq_separated_with_vlines.png", "png", "tq_separated_with_vlines"),
       ZipEntry("tq_separated.json", "json", "create_tq_separated"),
       ZipEntry("tq_split.png", "png", "tq_split"),
       ZipEntry("tq_split_with_vlines.png", "png", "tq_split_with_vlines"),
       ZipEntry("tq_split.json", "json", "create_tq_split"),
       ZipEntry("tq_merged.png", "png", "tq_merged"),
       ZipEntry("tq_merged_with_vlines.png", "png", "tq_merged_with_vlines"),
       ZipEntry("tq_merged.json", "json", "create_tq_merged") >>

\* Variant of ZipEntries: tq_split.json is written from the merged lines
ZipEntriesJsonSwapped ==
    << ZipEntry("gcc.png", "png", "gcc"),
       ZipEntry("tq.png", "png", "tq"),
       ZipEntry("tq_with_vlines.png", "png", "tq_with_vlines"),
       ZipEntry("tq.json", "json", "create_tq"),
       ZipEntry("tq_separated.png", "png", "tq_separated"),
       ZipEntry("tq_separated_with_vlines.png", "png", "tq_separated_with_vlines"),
       ZipEntry("tq_separeted.json", "json", "create_tq_separated"),
       ZipEntry("tq_split.png", "png", "tq_split"),
       ZipEntry("tq_split_with_vlines.png", "png", "tq_split_with_vlines"),
       ZipEntry("tq_split.json", "json", "create_tq_merged"),
       ZipEntry("tq_merged.png", "png", "tq_merged"),
       ZipEntry("tq_merged_with_vlines.png", "png", "tq_merged_with_vlines"),
       ZipEntry("tq_merged.json", "json", "create_tq_merged") >>

ZipEntries ==
    << ZipEntry("gcc.png", "png", "gcc"),
       ZipEntry("tq.png", "png", "tq"),
       ZipEntry("tq_with_vlines.png", "png", "tq_with_vlines"),
       ZipEntry("tq.json", "json", "create_tq"),
       ZipEntry("tq_separated.png", "png", "tq_separated"),
       ZipEntry("tq_separated_with_vlines.png", "png", "tq_separated_with_vlines"),
       ZipEntry("tq_separeted.json", "json", "create_tq_separated"),
       ZipEntry("tq_split.png", "png", "tq_split"),
       ZipEntry("tq_split_with_vlines.png", "png", "tq_split_with_vlines"),
       ZipEntry("tq_split.json", "json", "create_tq_split"),
       ZipEntry("tq_merged.png", "png", "tq_merged"),
       ZipEntry("tq_merged_with_vlines.png", "png", "tq_merged_with_vlines"),
       ZipEntry("tq_merged.json", "json", "create_tq_merged") >>

\* json.dumps(obj, indent=2): the text of obj
json_dumps(obj) == [json_text_of |-> obj]

\* base64.b64encode(data).decode(): the base64 text of data
b64encode(data) == [base64_of |-> data]

\* The data of one myzip.writestr call
ZipData(e) ==
    IF e.kind = "png"
    THEN bufs[e.from]
    ELSE json_dumps([hot_lines |-> lines[e.from].hot_lines,
                     cold_lines |-> lines[e.from].cold_lines])

\* The dict of the successful return (main.py 181-195)
SuccessResult ==
    [succeeded |-> TRUE,
     zip |-> b64encode(zip),
     images |-> [gcc |-> b64encode(bufs["gcc"]),
                 tq |-> b64encode(bufs["tq"]),
                 tq_with_vlines |-> b64encode(bufs["tq_with_vlines"]),
                 tq_separated |-> b64encode(bufs["tq_separated"]),
                 tq_separated_with_vlines |-> b64encode(bufs["tq_separated_with_vlines"]),
                 tq_split |-> b64encode(bufs["tq_split"]),
                 tq_split_with_vlines |-> b64encode(bufs["tq_split_with_vlines"]),
                 tq_merged |-> b64encode(bufs["tq_merged"]),
                 tq_merged_with_vlines |-> b64encode(bufs["tq_merged_with_vlines"])]]

\* The exception classes the two except clauses tell apart
Domain == "PyHeatIntegrationError"

Other == "Exception"

\* Variant of Critical: the flags of the two except clauses exchanged
CriticalInverted(kind) == kind = Domain

\* The critical flag the except clause catching an exception of class kind sets
Critical(kind) == kind # Domain

\* Variant of FailureResult: the images rendered so far are returned too
FailureResultPartial(kind, site) ==
    [succeeded |-> FALSE, message |-> site, critical |-> kind # Domain,
     images |-> [k \in {x \in BufKeys : bufs[x] # None} |-> b64encode(bufs[k])]]

\* The dict an except clause returns (main.py 196-207); str(e) names the site
FailureResult(kind, site) ==
    [succeeded |-> FALSE, message |-> site, critical |-> Critical(kind)]

(***************************************************************************)
(* State machine of run                                                    *)
(***************************************************************************)
Event(ev, key, val) == [ev |-> ev, key |-> key, val |-> val]

NoLines == [m \in TqMethods |-> None]

NoBufs == [k \in BufKeys |-> None]

Init ==
    /\ pc = "idle"
    /\ i = 0
    /\ cur = None
    /\ lines = NoLines
    /\ bufs = NoBufs
    /\ zip = <<>>
    /\ zipOpen = FALSE
    /\ result = None
    /\ figs = 0
    /\ reqs = 0
    /\ log = <<>>
    /\ fail = None
    /\ call = None

\* An exception of class kind leaves the try block at site: the matching
\* except clause returns the failure dict.
Raise(kind, site) ==
    /\ pc' = "done"
    /\ result' = FailureResult(kind, site)
    /\ fail' = [kind |-> kind, site |-> site]
    /\ log' = Append(log, Event("raise", site, None))

\* A /run request arrives: a fresh invocation of run
Request ==
    /\ pc \in {"idle", "done"}
    /\ reqs < MaxRequests
    /\ reqs' = reqs + 1
    /\ pc' = "build"
    /\ i' = 0
    /\ cur' = None
    /\ lines' = NoLines
    /\ bufs' = NoBufs
    /\ zip' = <<>>
    /\ zipOpen' = FALSE
    /\ result' = None
    /\ log' = <<>>
    /\ fail' = None
    /\ UNCHANGED <<figs, call>>

\* main.py 143: the streams are converted and the Analyzer is built
BuildOk ==
    /\ pc = "build"
    /\ pc' = "provider"
    /\ i' = 1
    /\ UNCHANGED <<cur, lines, bufs, zip, zipOpen, result, figs, reqs, log, fail, call>>

BuildRaise ==
    /\ pc = "build"
    /\ \E kind \in {Domain, Other} : Raise(kind, "build")
    /\ UNCHANGED <<i, cur, lines, bufs, zip, zipOpen, figs, reqs, call>>

\* analyzer.py 18, 46, 50, 54, 58: the super() call of the Analyzer method
ProviderOk ==
    /\ pc = "provider"
    /\ \E r \in ProviderReturns(CallSeq[i].method) :
          /\ cur' = r
          /\ log' = Append(log, Event("provider", CallSeq[i].method, r))
    /\ pc' = "render"
    /\ UNCHANGED <<i, lines, bufs, zip, zipOpen, result, figs, reqs, fail, call>>

ProviderRaise ==
    /\ pc = "provider"
    /\ \E kind \in {Domain, Other} : Raise(kind, "provider")
    /\ UNCHANGED <<i, cur, lines, bufs, zip, zipOpen, figs, reqs, call>>

\* analyzer.py 20-26, 31-43: plt.subplots, the drawing, fig.savefig; the
\* method returns and run binds its results (main.py 145-157)
RenderOk ==
    /\ pc = "render"
    /\ figs' = figs + 1
    /\ bufs' = [bufs EXCEPT ![CallSeq[i].key] = rendered(CallSeq[i])]
    /\ lines' = IF CallSeq[i].method \in TqMethods /\ ~CallSeq[i].with_vlines
                THEN [lines EXCEPT ![CallSeq[i].method] = tq_lines(CallSeq[i])]
                ELSE lines
    /\ cur' = None
    /\ log' = Append(log, Event("render", CallSeq[i].key, None))
    /\ IF i < Len(CallSeq)
       THEN pc' = "provider" /\ i' = i + 1
       ELSE pc' = "zipopen" /\ i' = i
    /\ UNCHANGED <<zip, zipOpen, result, reqs, fail, call>>

\* a library call of the rendering raises: plt.subplots itself (no figure
\* was created) or the drawing or fig.savefig after it (the figure stays)
RenderRaise ==
    /\ pc = "render"
    /\ \E created \in BOOLEAN : figs' = IF created THEN figs + 1 ELSE figs
    /\ Raise(Other, "render")
    /\ UNCHANGED <<i, cur, lines, bufs, zip, zipOpen, reqs, call>>

\* main.py 159-160
ZipOpen ==
    /\ pc = "zipopen"
    /\ zipOpen' = TRUE
    /\ pc' = "zip"
    /\ log' = Append(log, Event("zipopen", "", None))
    /\ UNCHANGED <<i, cur, lines, bufs, zip, result, figs, reqs, fail, call>>

\* main.py 161-177: the next myzip.writestr
ZipWrite ==
    /\ pc = "zip"
    /\ Len(zip) < Len(ZipEntries)
    /\ LET e == ZipEntries[Len(zip) + 1] IN
          /\ zip' = Append(zip, [name |-> e.name, data |-> ZipData(e)])
          /\ log' = Append(log, Event("write", e.name, None))
    /\ pc' = IF Len(zip) + 1 = Len(ZipEntries) THEN "return" ELSE "zip"
    /\ UNCHANGED <<i, cur, lines, bufs, zipOpen, result, figs, reqs, fail, call>>

ZipRaise ==
    /\ pc = "zip"
    /\ Raise(Other, "zip")
    /\ UNCHANGED <<i, cur, lines, bufs, zip, zipOpen, figs, reqs, call>>

\* main.py 179-195
Return ==
    /\ pc = "return"
    /\ result' = SuccessResult
    /\ pc' = "done"
    /\ UNCHANGED <<i, cur, lines, bufs, zip, zipOpen, figs, reqs, log, fail, call>>

Next ==
    \/ Request
    \/ BuildOk
    \/ BuildRaise
    \/ ProviderOk
    \/ ProviderRaise
    \/ RenderOk
    \/ RenderRaise
    \/ ZipOpen
    \/ ZipWrite
    \/ ZipRaise
    \/ Return

Spec == Init /\ [][Next]_vars

(***************************************************************************)
(* Analyzer.draw called on its own, on every input of DrawInputs           *)
(***************************************************************************)
Pending == [pending |-> TRUE]

Raised(kind) == [raised |-> kind]

InitDraw ==
    /\ pc = "idle"
    /\ i = 0
    /\ cur = None
    /\ lines = NoLines
    /\ bufs = NoBufs
    /\ zip = <<>>
    /\ zipOpen = FALSE
    /\ result = None
    /\ figs = 0
    /\ reqs = 0
    /\ log = <<>>
    /\ fail = None
    /\ \E ls \in DrawInputs, with_vlines \in BOOLEAN :
          call = [hot_lines |-> ls.hot_lines, cold_lines |-> ls.cold_lines,
                  with_vlines |-> with_vlines, ret |-> Pending]

\* analyzer.py 28-43: the call returns the PNG of the figure
DrawReturn ==
    /\ call.ret = Pending
    /\ figs' = figs + 1
    /\ call' = [call EXCEPT !.ret = draw(call.hot_lines, call.cold_lines, call.with_vlines)]
    /\ UNCHANGED <<pc, i, cur, lines, bufs, zip, zipOpen, result, reqs, log, fail>>

\* a library call inside draw raises: plt.subplots itself (no figure was
\* created) or a later call (the figure stays)
DrawRaise ==
    /\ call.ret = Pending
    /\ \E created \in BOOLEAN : figs' = IF created THEN figs + 1 ELSE figs
    /\ call' = [call EXCEPT !.ret = Raised(Other)]
    /\ UNCHANGED <<pc, i, cur, lines, bufs, zip, zipOpen, result, reqs, log, fail>>

NextDraw ==
    \/ DrawReturn
    \/ DrawRaise

SpecDraw == InitDraw /\ [][NextDraw]_vars

(***************************************************************************)
(* Properties                                                              *)
(***************************************************************************)
Succeeded == "succeeded" \in DOMAIN result /\ result.succeeded

Failed == "succeeded" \in DOMAIN result /\ ~result.succeeded

IsImage(x) == "kind" \in DOMAIN x

\* Reading back a JSON text and a base64 text
json_loads(text) == text.json_text_of

b64decode(text) == text.base64_of

\* The LineSet an image of draw was drawn from
LineSetIn(img) == LineSetOf(img.hot.segments, img.cold.segments)

\* The provider calls of method m made so far by the current request
ProviderCalls(m) == SelectSeq(log, LAMBDA e : e.ev = "provider" /\ e.key = m)

AllProviderCalls == SelectSeq(log, LAMBDA e : e.ev = "provider")

\* The steps executed so far, as <<step, name>> pairs, exceptions left out
Steps == LET done == SelectSeq(log, LAMBDA e : e.ev # "raise")
         IN  [k \in DOMAIN done |-> <<done[k].ev, done[k].key>>]

IsPrefix(s, t) == Len(s) <= Len(t) /\ \A k \in DOMAIN s : s[k] = t[k]

ZipNames(z) == [k \in DOMAIN z |-> z[k].name]

ZipEntryData(z, name) == (CHOOSE e \in Range(z) : e.name = name).data

PlainAnnotated ==
    { <<"create_tq", "tq", "tq_with_vlines">>,
      <<"create_tq_separated", "tq_separated", "tq_separated_with_vlines">>,
      <<"create_tq_split", "tq_split", "tq_split_with_vlines">>,
      <<"create_tq_merged", "tq_merged", "tq_merged_with_vlines">> }

\* The entry names of the bundle table, in its order
C1_Names ==
    << "gcc.png", "tq.png", "tq_with_vlines.png", "tq.json",
       "tq_separated.png", "tq_separated_with_vlines.png", "tq_separeted.json",
       "tq_split.png", "tq_split_with_vlines.png", "tq_split.json",
       "tq_merged.png", "tq_merged_with_vlines.png", "tq_merged.json" >>

\* C1: the entries written to the zip are always an initial part of the
\* thirteen names of the table, in its order, and a successful request has
\* written all thirteen, each name once, and returns that zip.
C1_BundleEntries ==
    /\ IsPrefix(ZipNames(zip), C1_Names)
    /\ Succeeded =>
          /\ ZipNames(b64decode(result.zip)) = C1_Names
          /\ Len(b64decode(result.zip)) = 13
          /\ Cardinality(Range(ZipNames(b64decode(result.zip)))) = 13

C1_Witness == Succeeded /\ Len(zip) = 13

\* C2: once a provider call has raised a domain error, the request is over:
\* the raise is the last step of the request, the failing call is not made
\* again, no zip is created, and the result has succeeded = false and neither
\* a zip nor images, whatever was rendered before.
C2_FailureAtomicity ==
    (fail # None /\ fail.kind = Domain /\ fail.site = "provider") =>
        /\ pc = "done"
        /\ log[Len(log)].ev = "raise"
        /\ Len(SelectSeq(log, LAMBDA e : e.ev = "raise")) = 1
        /\ Len(AllProviderCalls) = i - 1
        /\ ~zipOpen
        /\ zip = <<>>
        /\ Failed
        /\ "zip" \notin DOMAIN result
        /\ "images" \notin DOMAIN result

\* the provider fails at the third variant, after two variants were rendered
C2_Witness ==
    /\ fail # None /\ fail.kind = Domain /\ fail.site = "provider"
    /\ CallSeq[i].method = "create_tq_split"
    /\ bufs["tq_separated_with_vlines"] # None
    /\ Failed

C4_CriticalFlag ==
    /\ fail # None => Failed
    /\ Failed =>
          /\ fail # None
          /\ "message" \in DOMAIN result
          /\ result.critical \in BOOLEAN
          /\ (result.critical = FALSE) <=>
                (fail.kind = "PyHeatIntegrationError" /\ fail.site \in {"build", "provider"})
          /\ fail.site \in {"render", "zip"} => result.critical = TRUE

C4_Witness == Failed /\ fail.site = "provider" /\ ~result.critical /\ reqs = 2

HasShortLine == \E l \in Range(call.hot_lines \o call.cold_lines) : Len(l) < 2

\* C6 (as claimed): when draw is handed a Line of fewer than 2 points, in
\* either mode, the call ends with an InvalidGeometry error and no image.
C6_Original ==
    (HasShortLine /\ call.ret # Pending) =>
        /\ ~IsImage(call.ret)
        /\ call.ret = Raised("InvalidGeometry")

\* The order of steps with one provider call per variant
C7_ClaimedOrder ==
    << <<"provider", "create_grand_composite_curve">>, <<"render", "gcc">>,
       <<"provider", "create_tq">>, <<"render", "tq">>, <<"render", "tq_with_vlines">>,
       <<"provider", "create_tq_separated">>, <<"render", "tq_separated">>,
       <<"render", "tq_separated_with_vlines">>,
       <<"provider", "create_tq_split">>, <<"render", "tq_split">>,
       <<"render", "tq_split_with_vlines">>,
       <<"provider", "create_tq_merged">>, <<"render", "tq_merged">>,
       <<"render", "tq_merged_with_vlines">>,
       <<"zipopen", "">> >>
    \o [k \in 1..13 |-> <<"write", C1_Names[k]>>]

C7_CodeOrder ==
    << <<"provider", "create_grand_composite_curve">>, <<"render", "gcc">>,
       <<"provider", "create_tq">>, <<"render", "tq">>,
       <<"provider", "create_tq">>, <<"render", "tq_with_vlines">>,
       <<"provider", "create_tq_separated">>, <<"render", "tq_separated">>,
       <<"provider", "create_tq_separated">>, <<"render", "tq_separated_with_vlines">>,
       <<"provider", "create_tq_split">>, <<"render", "tq_split">>,
       <<"provider", "create_tq_split">>, <<"render", "tq_split_with_vlines">>,
       <<"provider", "create_tq_merged">>, <<"render", "tq_merged">>,
       <<"provider", "create_tq_merged">>, <<"render", "tq_merged_with_vlines">>,
       <<"zipopen", "">> >>
    \o [k \in 1..13 |-> <<"write", C1_Names[k]>>]

C8_Original == pc \in {"idle", "done"} => figs = 0

\* C9: an image drawn in annotated mode has exactly one guide per distinct
\* x coordinate of the points of the hot and cold lines together, each from
\* the least to the greatest y coordinate of those points; an image drawn
\* in plain mode has no guide; in both modes the hot and cold groups drawn
\* are the hot and cold lines given.
C9_Guides ==
    IsImage(call.ret) =>
        LET pts == UNION {Range(l) : l \in Range(call.hot_lines) \cup Range(call.cold_lines)}
            xs  == {p[1] : p \in pts}
            ys  == {p[2] : p \in pts}
            g   == call.ret.vlines
        IN  /\ call.ret.hot.segments = call.hot_lines
            /\ call.ret.cold.segments = call.cold_lines
            /\ ~call.with_vlines => g = <<>>
            /\ call.with_vlines =>
                  /\ Len(g) = Cardinality(xs)
                  /\ {g[k].x : k \in DOMAIN g} = xs
                  /\ \A k \in DOMAIN g :
                        /\ g[k].ymin \in ys /\ \A y \in ys : g[k].ymin <= y
                        /\ g[k].ymax \in ys /\ \A y \in ys : y <= g[k].ymax

\* three guides at 0, 50 and 120, a coordinate shared by a hot and a cold line
C9_Witness ==
    /\ IsImage(call.ret)
    /\ call.with_vlines
    /\ Len(call.hot_lines) = 1 /\ Len(call.cold_lines) = 1
    /\ {call.ret.vlines[k].x : k \in DOMAIN call.ret.vlines} = {0, 50, 120}
    /\ Len(call.ret.vlines) = 3
    /\ call.ret.vlines[1].ymin = 30 /\ call.ret.vlines[1].ymax = 150

\* JSON entry, method and plain image key of each variant; image key and entry name
C10_JsonNames ==
    { <<"tq.json", "create_tq", "tq">>,
      <<"tq_separeted.json", "create_tq_separated", "tq_separated">>,
      <<"tq_split.json", "create_tq_split", "tq_split">>,
      <<"tq_merged.json", "create_tq_merged", "tq_merged">> }

C10_PngNames ==
    { <<"gcc", "gcc.png">>, <<"tq", "tq.png">>, <<"tq_with_vlines", "tq_with_vlines.png">>,
      <<"tq_separated", "tq_separated.png">>,
      <<"tq_separated_with_vlines", "tq_separated_with_vlines.png">>,
      <<"tq_split", "tq_split.png">>, <<"tq_split_with_vlines", "tq_split_with_vlines.png">>,
      <<"tq_merged", "tq_merged.png">>,
      <<"tq_merged_with_vlines", "tq_merged_with_vlines.png">> }

\* C10: in a successful result the line data of each variant's JSON entry
\* is the LineSet the variant's plain-mode call returned, the one its plain
\* image is drawn from, and each of the nine images of the images map is
\* the data of the zip entry '<key>.png' of the returned zip.
C10_JsonAndImages ==
    Succeeded =>
        LET z == b64decode(result.zip) IN
        /\ \A t \in C10_JsonNames :
              /\ json_loads(ZipEntryData(z, t[1])) = ProviderCalls(t[2])[1].val
              /\ json_loads(ZipEntryData(z, t[1])) = LineSetIn(ZipEntryData(z, t[3] \o ".png"))
        /\ DOMAIN result.images = {t[1] : t \in C10_PngNames}
        /\ \A t \in C10_PngNames :
              /\ IsImage(b64decode(result.images[t[1]]))
              /\ b64decode(result.images[t[1]]) = ZipEntryData(z, t[2])

\* the variants' plain calls returned different LineSets
C10_Witness ==
    /\ Succeeded
    /\ ProviderCalls("create_tq_split")[1].val # ProviderCalls("create_tq_merged")[1].val
    /\ ProviderCalls("create_tq_split")[1].val # ProviderCalls("create_tq_split")[2].val

====
